---- MODULE Spec2Model ----
(***************************************************************************)
(* A model of the news aggregation pipeline of scraper.py (scrape_all and  *)
(* the fetchers it calls), translator.py and the two triggers of app.py.   *)
(* Texts, URLs and dates are strings, handled character by character as    *)
(* the Python code handles them.                                           *)
(***************************************************************************)
EXTENDS Naturals, Sequences, FiniteSets, TLC

(***************************************************************************)
(* Strings.                                                                *)
(***************************************************************************)

\* JSON null / Python None.
None == "<None>"

\* Body applied to the value of v (a local variable: v is computed once).
With(v, Body(_)) == CHOOSE y \in { Body(w) : w \in {v} } : TRUE

\* The characters the model's strings use, in code point order.
Alphabet == " +,-./0123456789:<>ABCDEFGHIJKLMNOPQRSTUVWXYZabcdefghijklmnopqrstuvwxyz"

CharAt(s, i) == SubSeq(s, i, i)

Chars == { CharAt(Alphabet, i) : i \in 1..Len(Alphabet) }

OrdTable == [c \in Chars |-> CHOOSE i \in 1..Len(Alphabet) : CharAt(Alphabet, i) = c]

\* The rank of a one-character string in code point order.
Ord(c) == OrdTable[c]

IsDigit(c) == c \in {"0", "1", "2", "3", "4", "5", "6", "7", "8", "9"}

DigitVal(c) == Ord(c) - Ord("0")

IsUpper(c) == Ord(c) >= Ord("A") /\ Ord(c) <= Ord("Z")

LowerChar(c) == IF IsUpper(c) THEN CharAt(Alphabet, Ord(c) - Ord("A") + Ord("a")) ELSE c

RECURSIVE LowerRange(_, _, _)
\* The characters lo..hi of s in lower case (halving keeps the recursion shallow).
LowerRange(s, lo, hi) ==
    IF lo > hi THEN ""
    ELSE IF lo = hi THEN LowerChar(CharAt(s, lo))
    ELSE LowerRange(s, lo, (lo + hi) \div 2) \o LowerRange(s, (lo + hi) \div 2 + 1, hi)

\* str.lower()
Lower(s) == LowerRange(s, 1, Len(s))

\* kw in text (substring test)
Contains(text, kw) ==
    \E i \in 1..(Len(text) + 1) :
        /\ i + Len(kw) - 1 <= Len(text)
        /\ SubSeq(text, i, i + Len(kw) - 1) = kw

\* s[:n]
Truncate(s, n) == IF Len(s) <= n THEN s ELSE SubSeq(s, 1, n)

\* not s  (None and the empty string are falsy)
Falsy(v) == v = None \/ v = ""

RECURSIVE StrLessFrom(_, _, _)
StrLessFrom(a, b, i) ==
    IF i > Len(a) THEN i <= Len(b)
    ELSE IF i > Len(b) THEN FALSE
    ELSE IF CharAt(a, i) = CharAt(b, i) THEN StrLessFrom(a, b, i + 1)
    ELSE Ord(CharAt(a, i)) < Ord(CharAt(b, i))

\* a < b on Python strings (code point order)
StrLess(a, b) == StrLessFrom(a, b, 1)

RECURSIVE StripFrom(_, _, _)
StripFrom(s, i, inTag) ==
    IF i > Len(s) THEN ""
    ELSE IF inTag
         THEN StripFrom(s, i + 1, CharAt(s, i) # ">")
         ELSE IF CharAt(s, i) = "<"
              THEN StripFrom(s, i + 1, TRUE)
              ELSE CharAt(s, i) \o StripFrom(s, i + 1, FALSE)

\* BeautifulSoup(html, 'html.parser').get_text(): the text outside the tags
GetText(html) == StripFrom(html, 1, FALSE)

(***************************************************************************)
(* Keyword lists, inclusion test and platform classifier.                  *)
(***************************************************************************)

ANDROID_KEYWORDS ==
    << "android 17", "android17", "android baklava",
       "android 16 qpr", "android16 qpr", "qpr", "quarterly platform release",
       "google i/o 2025", "google i/o 2026",
       "android beta", "android preview", "android developer preview",
       "material you", "gemini android", "tensor g5", "tensor g6" >>

IOS_KEYWORDS ==
    << "ios 27", "ios27", "ios 26", "ios26", "ios beta", "ios preview", "ios developer" >>

KEYWORDS == ANDROID_KEYWORDS \o IOS_KEYWORDS

\* any(kw in text for kw in kws)  (t is the text, computed once)
AnyIn(text, kws) == \E t \in {text} : \E k \in 1..Len(kws) : Contains(t, kws[k])

contains_keywords(text) == AnyIn(Lower(text), KEYWORDS)

detect_platform_swapped(text) ==
    LET text_lower == Lower(text)
        is_android == AnyIn(text_lower, ANDROID_KEYWORDS)
        is_ios     == AnyIn(text_lower, IOS_KEYWORDS)
    IN  IF is_android /\ is_ios THEN "ios"
        ELSE IF is_ios THEN "ios"
        ELSE "android"

detect_platform(text) ==
    LET text_lower == Lower(text)
        is_android == AnyIn(text_lower, ANDROID_KEYWORDS)
        is_ios     == AnyIn(text_lower, IOS_KEYWORDS)
    IN  IF is_android /\ is_ios THEN "android"
        ELSE IF is_ios THEN "ios"
        ELSE "android"

(***************************************************************************)
(* Dates: extract_date_from_url and parse_news_date.                       *)
(***************************************************************************)

AllDigits(s, i, n) ==
    /\ i >= 1
    /\ i + n - 1 <= Len(s)
    /\ \A j \in i..(i + n - 1) : IsDigit(CharAt(s, j))

RECURSIVE ToInt(_, _, _)
\* int(s[i-1 : i-1+n])
ToInt(s, i, n) == IF n = 0 THEN 0 ELSE ToInt(s, i, n - 1) * 10 + DigitVal(CharAt(s, i + n - 1))

Digit(n) == CharAt("0123456789", n + 1)

RECURSIVE Pad(_, _)
\* f"{n:0wd}"
Pad(n, w) ==
    IF w <= 1 /\ n < 10 THEN Digit(n)
    ELSE Pad(n \div 10, IF w > 1 THEN w - 1 ELSE 1) \o Digit(n % 10)

NoMatch == [found |-> FALSE, year |-> 0, month |-> 0, day |-> 0]

\* The four regular expressions of date_patterns: an optional leading "/", four
\* digits, a separator, one or two digits, the separator, one or two digits and an
\* optional trailing "/".
date_patterns ==
    << [lead |-> TRUE,  sep |-> "/", trail |-> TRUE],
       [lead |-> TRUE,  sep |-> "-", trail |-> TRUE],
       [lead |-> FALSE, sep |-> "/", trail |-> TRUE],
       [lead |-> FALSE, sep |-> "-", trail |-> FALSE] >>

\* The pattern matched at position i with a month of ml and a day of dl digits.
MatchesAt(url, pat, i, ml, dl) ==
    LET y0 == IF pat.lead THEN i + 1 ELSE i
        m0 == y0 + 5
        d0 == m0 + ml + 1
        e0 == d0 + dl
    IN  /\ pat.lead => (i <= Len(url) /\ CharAt(url, i) = "/")
        /\ AllDigits(url, y0, 4)
        /\ y0 + 4 <= Len(url) /\ CharAt(url, y0 + 4) = pat.sep
        /\ AllDigits(url, m0, ml)
        /\ m0 + ml <= Len(url) /\ CharAt(url, m0 + ml) = pat.sep
        /\ AllDigits(url, d0, dl)
        /\ pat.trail => (e0 <= Len(url) /\ CharAt(url, e0) = "/")

\* The greedy quantifiers try two digits before one, the month before the day.
Widths == << <<2, 2>>, <<2, 1>>, <<1, 2>>, <<1, 1>> >>

\* The groups of the match at position i with widths Widths[w].
Groups(url, pat, i, w) ==
    LET y0 == IF pat.lead THEN i + 1 ELSE i
    IN  [found |-> TRUE,
         year  |-> ToInt(url, y0, 4),
         month |-> ToInt(url, y0 + 5, Widths[w][1]),
         day   |-> ToInt(url, y0 + 5 + Widths[w][1] + 1, Widths[w][2])]

\* re.search(pattern, url): the leftmost match, the first widths that match
\* there, and its three groups.
ReSearch(url, pat) ==
    LET Pick(hits) ==
            IF hits = {} THEN NoMatch
            ELSE LET first == CHOOSE h \in hits :
                                 \A g \in hits : h[1] < g[1] \/ (h[1] = g[1] /\ h[2] <= g[2])
                 IN  Groups(url, pat, first[1], first[2])
    IN  With({ h \in (1..Len(url)) \X (1..4) : MatchesAt(url, pat, h[1], Widths[h[2]][1], Widths[h[2]][2]) },
             Pick)

RECURSIVE ExtractFrom(_, _)
ExtractFrom(url, p) ==
    IF p > Len(date_patterns) THEN ""
    ELSE LET Checked(m) ==
                 IF /\ m.found
                    /\ 2000 <= m.year /\ m.year <= 2100
                    /\ 1 <= m.month /\ m.month <= 12
                    /\ 1 <= m.day /\ m.day <= 31
                 THEN Pad(m.year, 4) \o "-" \o Pad(m.month, 2) \o "-" \o Pad(m.day, 2)
                 ELSE ExtractFrom(url, p + 1)
         IN  With(ReSearch(url, date_patterns[p]), Checked)

extract_date_from_url(url) == ExtractFrom(url, 1)

\* A parsed datetime, or the failure of a parse.
Unparsed == [ok |-> FALSE, year |-> 0, month |-> 0, day |-> 0, hour |-> 0, minute |-> 0, second |-> 0]

DateTime(y, mo, d, h, mi, sec) ==
    IF 1 <= mo /\ mo <= 12 /\ 1 <= d /\ d <= 31 /\ h <= 23 /\ mi <= 59 /\ sec <= 59
    THEN [ok |-> TRUE, year |-> y, month |-> mo, day |-> d, hour |-> h, minute |-> mi, second |-> sec]
    ELSE Unparsed

\* "YYYY-MM-DD" at position i
IsYMD(s, i) ==
    /\ AllDigits(s, i, 4) /\ AllDigits(s, i + 5, 2) /\ AllDigits(s, i + 8, 2)
    /\ CharAt(s, i + 4) = "-" /\ CharAt(s, i + 7) = "-"

\* "HH:MM:SS" at position i
IsHMS(s, i) ==
    /\ AllDigits(s, i, 2) /\ AllDigits(s, i + 3, 2) /\ AllDigits(s, i + 6, 2)
    /\ CharAt(s, i + 2) = ":" /\ CharAt(s, i + 5) = ":"

\* "+ZZZZ" or "-ZZZZ" from position i to the end
IsOffset(s, i) ==
    /\ Len(s) = i + 4
    /\ CharAt(s, i) \in {"+", "-"}
    /\ AllDigits(s, i + 1, 4)

MonthNames == << "Jan", "Feb", "Mar", "Apr", "May", "Jun", "Jul", "Aug", "Sep", "Oct", "Nov", "Dec" >>

DayNames == {"Mon", "Tue", "Wed", "Thu", "Fri", "Sat", "Sun"}

\* '%Y-%m-%d'
ParseDateOnly(s) ==
    IF Len(s) = 10 /\ IsYMD(s, 1)
    THEN DateTime(ToInt(s, 1, 4), ToInt(s, 6, 2), ToInt(s, 9, 2), 0, 0, 0)
    ELSE Unparsed

\* '%Y-%m-%d %H:%M:%S' (sep " ") and '%Y-%m-%dT%H:%M:%S%z' (sep "T", with an offset)
ParseDateTime(s, sep, offset) ==
    IF /\ Len(s) >= 19 /\ IsYMD(s, 1) /\ CharAt(s, 11) = sep /\ IsHMS(s, 12)
       /\ IF offset THEN IsOffset(s, 20) ELSE Len(s) = 19
    THEN DateTime(ToInt(s, 1, 4), ToInt(s, 6, 2), ToInt(s, 9, 2),
                  ToInt(s, 12, 2), ToInt(s, 15, 2), ToInt(s, 18, 2))
    ELSE Unparsed

\* '%a, %d %b %Y %H:%M:%S %z'
ParseRss(s) ==
    IF /\ Len(s) = 31
       /\ SubSeq(s, 1, 3) \in DayNames /\ SubSeq(s, 4, 5) = ", "
       /\ AllDigits(s, 6, 2) /\ CharAt(s, 8) = " "
       /\ \E m \in 1..12 : MonthNames[m] = SubSeq(s, 9, 11)
       /\ CharAt(s, 12) = " " /\ AllDigits(s, 13, 4) /\ CharAt(s, 17) = " "
       /\ IsHMS(s, 18) /\ CharAt(s, 26) = " " /\ IsOffset(s, 27)
    THEN DateTime(ToInt(s, 13, 4), CHOOSE m \in 1..12 : MonthNames[m] = SubSeq(s, 9, 11),
                  ToInt(s, 6, 2), ToInt(s, 18, 2), ToInt(s, 21, 2), ToInt(s, 24, 2))
    ELSE Unparsed

\* The shapes of date string the model's feeds use.
Shapes(s) ==
    << ParseDateTime(s, "T", TRUE), ParseDateTime(s, "T", FALSE), ParseDateTime(s, " ", FALSE),
       ParseDateOnly(s), ParseRss(s) >>

FirstParsed(results) ==
    LET First(rs) ==
            IF \E k \in 1..Len(rs) : rs[k].ok
            THEN rs[CHOOSE k \in 1..Len(rs) : rs[k].ok /\ \A j \in 1..(k - 1) : ~rs[j].ok]
            ELSE Unparsed
    IN  With(results, First)

\* dateutil.parser.parse on the shapes above; any other string raises.
DateutilParse(s) == FirstParsed(Shapes(s))

\* The datetime.strptime loop over date_formats (the name of a time zone, %Z, is
\* not among the model's strings).
StrptimeFormats(s) ==
    FirstParsed(<< ParseDateTime(s, "T", TRUE), ParseDateTime(s, " ", FALSE),
                   ParseDateOnly(s), ParseRss(s) >>)

\* strftime('%Y-%m-%d')
FormatDate(dt) == Pad(dt.year, 4) \o "-" \o Pad(dt.month, 2) \o "-" \o Pad(dt.day, 2)

\* strftime('%Y-%m-%d %H:%M')
FormatDateTime(dt) == FormatDate(dt) \o " " \o Pad(dt.hour, 2) \o ":" \o Pad(dt.minute, 2)

\* The length the unparsed date string is cut to.
DateFallbackLen == 50

\* A normalization that falls back to the URL also when the string does not parse.
parse_news_date_url_fallback(date_str, url) ==
    LET Format(parsed) ==
            IF parsed.ok
            THEN IF parsed.hour = 0 /\ parsed.minute = 0 /\ parsed.second = 0
                 THEN FormatDate(parsed)
                 ELSE FormatDateTime(parsed)
            ELSE IF url # "" /\ extract_date_from_url(url) # ""
                 THEN extract_date_from_url(url)
                 ELSE Truncate(date_str, DateFallbackLen)
        Fallback(first) == IF first.ok THEN first ELSE StrptimeFormats(date_str)
    IN  IF date_str = ""
        THEN IF url # "" THEN extract_date_from_url(url) ELSE ""
        ELSE With(With(DateutilParse(date_str), Fallback), Format)

parse_news_date(date_str, url) ==
    IF date_str = ""
    THEN IF url # "" /\ extract_date_from_url(url) # ""
         THEN extract_date_from_url(url)
         ELSE ""
    ELSE LET Format(parsed) ==
                 IF parsed.ok
                 THEN IF parsed.hour = 0 /\ parsed.minute = 0 /\ parsed.second = 0
                      THEN FormatDate(parsed)
                      ELSE FormatDateTime(parsed)
                 ELSE Truncate(date_str, DateFallbackLen)
             Fallback(first) == IF first.ok THEN first ELSE StrptimeFormats(date_str)
         IN  With(With(DateutilParse(date_str), Fallback), Format)

\* The date of an article block of a search page: the time element's datetime
\* attribute, always formatted with its time of day, else the date of the URL.
search_date(datetime_attr, url) ==
    LET Format(parsed) == IF parsed.ok THEN FormatDateTime(parsed) ELSE ""
        date_str == IF datetime_attr = "" THEN "" ELSE With(DateutilParse(datetime_attr), Format)
    IN  IF date_str = "" /\ url # "" /\ extract_date_from_url(url) # ""
        THEN extract_date_from_url(url)
        ELSE date_str

(***************************************************************************)
(* Identity.                                                               *)
(***************************************************************************)

\* The number of hexadecimal digits of an id.
IdWidth == 12

HexDigits == "0123456789abcdef"

RECURSIVE Mix(_, _, _, _)
\* One digit of the digest: a checksum of the characters lo..hi of the URL.
Mix(url, lo, hi, j) ==
    IF lo > hi THEN 0
    ELSE IF lo = hi THEN (Ord(CharAt(url, lo)) * (lo + j)) % 16
    ELSE (Mix(url, lo, (lo + hi) \div 2, j) + Mix(url, (lo + hi) \div 2 + 1, hi, j)) % 16

RECURSIVE DigestFrom(_, _)
DigestFrom(url, j) ==
    IF j > IdWidth THEN "" ELSE CharAt(HexDigits, Mix(url, 1, Len(url), j) + 1) \o DigestFrom(url, j + 1)

\* hashlib.md5(url.encode()).hexdigest()[:12]: a fixed-width digest of the URL alone
generate_id(url) == DigestFrom(url, 1)

(***************************************************************************)
(* Items (Python dicts: a key may be absent).                              *)
(***************************************************************************)

\* item.get(key)
Get(item, key) == IF key \in DOMAIN item THEN item[key] ELSE None

\* item[key] = value
Put(item, key, value) == [k \in DOMAIN item \cup {key} |-> IF k = key THEN value ELSE item[k]]

Ids(items) == { items[i].id : i \in 1..Len(items) }

IndexOfId(items, id) == CHOOSE i \in 1..Len(items) : items[i].id = id

NewsItem(fetcher, title, summary, url, date, platform, image) ==
    [id |-> generate_id(url), title |-> title, summary |-> summary, url |-> url,
     source |-> fetcher.source, source_icon |-> fetcher.source_icon, date |-> date,
     type |-> "news", platform |-> platform, image |-> image]

(***************************************************************************)
(* Source fetchers.                                                        *)
(***************************************************************************)

\* The length a stored summary is cut to.
SummaryLen == 300

\* The feed fetchers: the number of entries examined, the inclusion test and the
\* platform tag.
fetch_android_authority ==
    [kind |-> "feed", site |-> "androidauthority", source |-> "Android Authority", source_icon |-> "AA",
     limit |-> 50, test |-> "keywords_or_tags", platform |-> "android"]

fetch_9to5google ==
    [kind |-> "feed", site |-> "9to5google", source |-> "9to5Google", source_icon |-> "9to5",
     limit |-> 30, test |-> "keywords", platform |-> "detect"]

fetch_xda_developers ==
    [kind |-> "feed", site |-> "xda", source |-> "XDA Developers", source_icon |-> "XDA",
     limit |-> 30, test |-> "keywords", platform |-> "android"]

fetch_9to5mac ==
    [kind |-> "feed", site |-> "9to5mac", source |-> "9to5Mac", source_icon |-> "9to5",
     limit |-> 30, test |-> "ios", platform |-> "ios"]

fetch_macrumors ==
    [kind |-> "feed", site |-> "macrumors", source |-> "MacRumors", source_icon |-> "MR",
     limit |-> 30, test |-> "ios", platform |-> "ios"]

\* The search fetchers: no inclusion test, the first 20 article blocks.
search_9to5mac ==
    [kind |-> "search", site |-> "9to5mac", source |-> "9to5Mac", source_icon |-> "9to5",
     limit |-> 20, test |-> "none", platform |-> "ios"]

search_android_authority ==
    [kind |-> "search", site |-> "androidauthority", source |-> "Android Authority", source_icon |-> "AA",
     limit |-> 20, test |-> "none", platform |-> "android"]

search_9to5google ==
    [kind |-> "search", site |-> "9to5google", source |-> "9to5Google", source_icon |-> "9to5",
     limit |-> 20, test |-> "none", platform |-> "detect"]

FeedFetchers == {fetch_android_authority, fetch_9to5google, fetch_xda_developers, fetch_9to5mac, fetch_macrumors}

SearchFetchers == {search_9to5mac, search_android_authority, search_9to5google}

RECURSIVE Join(_)
\* ' '.join(terms)
Join(terms) ==
    IF Len(terms) = 0 THEN ""
    ELSE IF Len(terms) = 1 THEN terms[1]
    ELSE terms[1] \o " " \o Join(Tail(terms))

\* seq[:n]
Take(seq, n) == IF Len(seq) <= n THEN seq ELSE SubSeq(seq, 1, n)

\* The inclusion test of a feed fetcher on one entry.
Included(f, entry) ==
    IF f.test = "keywords_or_tags"
    THEN \/ contains_keywords(entry.title)
         \/ contains_keywords(entry.summary)
         \/ contains_keywords(Join(entry.tags))
    ELSE IF f.test = "keywords"
    THEN contains_keywords(entry.title) \/ contains_keywords(entry.summary)
    ELSE AnyIn(Lower(entry.title \o " " \o entry.summary), IOS_KEYWORDS)

PlatformOf(f, title, summary) ==
    IF f.platform = "detect" THEN detect_platform(title \o " " \o summary) ELSE f.platform

\* The body of the loop over the entries of a feed: the candidates so far and
\* whether the entry raised (entry.link of an entry without a link).
feed_step(f, entry, news) ==
    IF ~Included(f, entry) THEN [news |-> news, error |-> FALSE]
    ELSE IF entry.link = None THEN [news |-> news, error |-> TRUE]
    ELSE [news  |-> Append(news, NewsItem(f, entry.title, Truncate(GetText(entry.summary), SummaryLen),
                                          entry.link, parse_news_date(entry.published, entry.link),
                                          PlatformOf(f, entry.title, entry.summary), entry.image)),
          error |-> FALSE]

RECURSIVE FeedLoop(_, _, _, _)
FeedLoop(f, entries, i, news) ==
    IF i > Len(entries) THEN [news |-> news, error |-> FALSE]
    ELSE LET Rest(step) == IF step.error THEN step ELSE FeedLoop(f, entries, i + 1, step.news)
         IN  With(feed_step(f, entries[i], news), Rest)

\* A feed fetcher without its except clause: the exception reaches the caller.
feed_result_uncaught(f, resp) ==
    LET Raised(done) == [news |-> done.news, error |-> done.error, raised |-> done.error]
    IN  IF resp.status = "error"
        THEN [news |-> << >>, error |-> TRUE, raised |-> TRUE]
        ELSE With(FeedLoop(f, Take(resp.entries, f.limit), 1, << >>), Raised)

\* A feed fetcher on the answer of its feed: the except clause returns the
\* candidates collected before the exception; nothing is raised to the caller.
feed_result(f, resp) ==
    LET Caught(done) == [news |-> done.news, error |-> done.error, raised |-> FALSE]
    IN  IF resp.status = "error"
        THEN [news |-> << >>, error |-> TRUE, raised |-> FALSE]
        ELSE With(FeedLoop(f, Take(resp.entries, f.limit), 1, << >>), Caught)

\* The body of the loop over the article blocks of a search page: a block without
\* a heading, a link or a title is skipped.
search_step(f, article, news) ==
    IF article.title = None \/ article.url = None THEN news
    ELSE IF article.url = "" \/ article.title = "" THEN news
    ELSE Append(news, NewsItem(f, article.title, Truncate(article.summary, SummaryLen), article.url,
                               search_date(article.datetime, article.url),
                               PlatformOf(f, article.title, article.summary), article.image))

RECURSIVE SearchLoop(_, _, _, _)
SearchLoop(f, articles, i, news) ==
    IF i > Len(articles) THEN news
    ELSE LET Rest(found) == SearchLoop(f, articles, i + 1, found)
         IN  With(search_step(f, articles[i], news), Rest)

\* A search fetcher on the answer of the search page.
search_result(f, resp) ==
    IF resp.status = "error" THEN [news |-> << >>, error |-> TRUE, raised |-> FALSE]
    ELSE IF resp.status # "200" THEN [news |-> << >>, error |-> FALSE, raised |-> FALSE]
    ELSE [news |-> SearchLoop(f, Take(resp.entries, f.limit), 1, << >>), error |-> FALSE, raised |-> FALSE]

fetch_result(f, resp) == IF f.kind = "feed" THEN feed_result(f, resp) ELSE search_result(f, resp)

\* The calls of scrape_all, in order, with the query of each search.
Sources ==
    << [fetcher |-> fetch_android_authority, query |-> ""],
       [fetcher |-> fetch_9to5google, query |-> ""],
       [fetcher |-> fetch_xda_developers, query |-> ""],
       [fetcher |-> fetch_9to5mac, query |-> ""],
       [fetcher |-> fetch_macrumors, query |-> ""],
       [fetcher |-> search_android_authority, query |-> "android 17"],
       [fetcher |-> search_9to5google, query |-> "android 17"],
       [fetcher |-> search_android_authority, query |-> "android 17 beta"],
       [fetcher |-> search_9to5google, query |-> "android 17 beta"],
       [fetcher |-> search_android_authority, query |-> "android 17 preview"],
       [fetcher |-> search_9to5google, query |-> "android 17 preview"],
       [fetcher |-> search_android_authority, query |-> "android baklava"],
       [fetcher |-> search_9to5google, query |-> "android baklava"],
       [fetcher |-> search_android_authority, query |-> "android 16 qpr"],
       [fetcher |-> search_9to5google, query |-> "android 16 qpr"],
       [fetcher |-> search_android_authority, query |-> "qpr"],
       [fetcher |-> search_9to5google, query |-> "qpr"],
       [fetcher |-> search_9to5mac, query |-> "ios 27"],
       [fetcher |-> search_9to5mac, query |-> "iphone 17"] >>

(***************************************************************************)
(* What the sites answer.                                                  *)
(***************************************************************************)

\* At most this many entries are answered to one run, by at most this many calls;
\* every other call is answered with an empty feed or page.
MaxCandidates == 2

UrlA1 == "https://www.androidauthority.com/android-17-beta-2/"
UrlA2 == "https://www.androidauthority.com/2026/01/30/pixel-10-camera/"
UrlG1 == "https://9to5google.com/2026/01/28/android-17-ios-27/"
UrlG2 == "https://9to5google.com/android-beta-program/"
UrlX1 == "https://www.xda-developers.com/android-17-qpr/"
UrlM1 == "https://9to5mac.com/2026/02/03/ios-27-beta/"
UrlR1 == "https://www.macrumors.com/2026-2-5/ios-26-galaxy"

FeedImage == "https://img.example/feed.jpg"

Entry(title, summary, link, published, tags, image) ==
    [title |-> title, summary |-> summary, link |-> link, published |-> published,
     tags |-> tags, image |-> image]

Article(title, summary, url, datetime, image) ==
    [title |-> title, summary |-> summary, url |-> url, datetime |-> datetime, image |-> image]

\* The entries a site's feed may carry.
FeedEntries(site) ==
    IF site = "androidauthority" THEN
        { Entry("Android 17 Beta 2 released", "<p>QPR 2 notes</p>", UrlA1, "2026-01-28T10:00:00+0000", << >>, None),
          Entry("Pixel 10 camera review", "", UrlA1, "2026-01-29", <<"Reviews", "Android 17">>, FeedImage),
          Entry("Android Beta program expands", "", None, "", << >>, None) }
    ELSE IF site = "9to5google" THEN
        { Entry("Android 17 vs iOS 27", "", UrlG1, "Wed, 28 Jan 2026 00:00:00 +0000", << >>, None),
          Entry("iOS 27 beta 1 is out", "", UrlG1, "2026-01-28T10:00:00+0000", << >>, None) }
    ELSE IF site = "xda" THEN
        { Entry("", "<b>Android 17</b> QPR", UrlX1, "", << >>, FeedImage) }
    ELSE IF site = "9to5mac" THEN
        { Entry("iOS 27 beta 1 is out", "", UrlM1, "2026-02-03T09:15:00+0000", << >>, None) }
    ELSE
        { Entry("Galaxy S26 leak", "Coming with iOS 26", UrlR1, "not a date", << >>, None) }

\* The article blocks a site's search page may carry.
SearchArticles(site) ==
    IF site = "androidauthority" THEN
        { Article("Pixel 10 camera review", "", UrlA2, "", None) }
    ELSE IF site = "9to5google" THEN
        { Article("Android Beta program expands", "", UrlG2, "2026-02-01T08:30:00+0000", FeedImage) }
    ELSE
        { Article("iPhone 17 review", "", UrlM1, "", None) }

SeqsUpTo(S, n) == UNION { [1..k -> S] : k \in 0..n }

\* The answers to a call that are not the empty feed or page: some entries, or
\* an exception before the first entry.
Answers(f, n) ==
    LET pool == IF f.kind = "feed" THEN FeedEntries(f.site) ELSE SearchArticles(f.site)
        ok   == IF f.kind = "feed" THEN "ok" ELSE "200"
    IN  { [status |-> ok, entries |-> e] : e \in SeqsUpTo(pool, n) \ {<< >>} }
        \cup { [status |-> "error", entries |-> << >>] }

Fetchers == FeedFetchers \cup SearchFetchers

\* fetch_result on every answer of the model.
ResultTable == [f \in Fetchers |-> [resp \in Answers(f, MaxCandidates) |-> fetch_result(f, resp)]]

RECURSIVE Outcomes(_, _, _)
\* What the calls from call c on hand to scrape_all, when at most a of them are
\* answered with anything and with at most e entries in all.
Outcomes(c, a, e) ==
    IF c > Len(Sources) THEN { [news |-> << >>, raised |-> FALSE, errors |-> 0] }
    ELSE Outcomes(c + 1, a, e)
         \cup IF a = 0 THEN {}
              ELSE UNION { IF got[2].raised
                           THEN { [news |-> got[2].news, raised |-> TRUE, errors |-> 0] }
                           ELSE { [news   |-> got[2].news \o rest.news, raised |-> rest.raised,
                                   errors |-> rest.errors + (IF got[2].error THEN 1 ELSE 0)] :
                                  rest \in Outcomes(c + 1, a - 1, e - Len(got[1].entries)) } :
                           got \in { <<resp, ResultTable[Sources[c].fetcher][resp]>> :
                                     resp \in Answers(Sources[c].fetcher, e) } }

\* new_news after the nineteen calls and the number of calls that logged an
\* error, or an exception raised out of one of them.
FetchOutcomes == Outcomes(1, MaxCandidates, MaxCandidates)

(***************************************************************************)
(* The steps of scrape_all on its local data.                              *)
(***************************************************************************)

RECURSIVE DictFrom(_, _, _)
DictFrom(items, i, dict) ==
    IF i > Len(items) THEN dict
    ELSE LET Rest(d) == DictFrom(items, i + 1, d)
         IN  IF Get(items[i], "type") # "news" THEN DictFrom(items, i + 1, dict)
             ELSE IF items[i].id \in Ids(dict)
             THEN With([dict EXCEPT ![IndexOfId(dict, items[i].id)] = items[i]], Rest)
             ELSE With(Append(dict, items[i]), Rest)

\* {item['id']: item for item in items if item['type'] == 'news'}, as the
\* sequence of its values in insertion order
NewsById(items) == DictFrom(items, 1, << >>)

\* A merge that lets the later observation replace the stored record.
merge_item_overwrite(existing_news, item) ==
    IF item.id \in Ids(existing_news)
    THEN [existing_news EXCEPT ![IndexOfId(existing_news, item.id)] = item]
    ELSE Append(existing_news, item)

\* A merge without the membership test.
merge_item_append(existing_news, item) == Append(existing_news, item)

\* if item['id'] not in existing_news: existing_news[item['id']] = item
merge_item(existing_news, item) ==
    IF item.id \notin Ids(existing_news) THEN Append(existing_news, item) ELSE existing_news

RECURSIVE MergeFrom(_, _, _)
MergeFrom(existing_news, new_news, i) ==
    IF i > Len(new_news) THEN existing_news
    ELSE LET Rest(merged) == MergeFrom(merged, new_news, i + 1)
         IN  With(merge_item(existing_news, new_news[i]), Rest)

\* A merge that extends the history with the candidates as they come.
Merge_extend(existing_news, new_news) == existing_news \o new_news

\* A merge that starts from an empty dict instead of the history.
Merge_fresh(existing_news, new_news) == MergeFrom(<< >>, new_news, 1)

\* The loop that merges the candidates into the history.
Merge(existing_news, new_news) == MergeFrom(existing_news, new_news, 1)

\* The place of an item in a list sorted by date, newest first: behind every item
\* that is not older (the sort is stable).
InsertByDate(sorted, item) ==
    LET older == { i \in 1..Len(sorted) : StrLess(sorted[i].date, item.date) }
        at    == IF older = {} THEN Len(sorted) + 1 ELSE CHOOSE i \in older : \A j \in older : i <= j
    IN  SubSeq(sorted, 1, at - 1) \o << item >> \o SubSeq(sorted, at, Len(sorted))

RECURSIVE SortFrom(_, _, _)
SortFrom(items, i, sorted) ==
    IF i > Len(items) THEN sorted
    ELSE LET Rest(placed) == SortFrom(items, i + 1, placed)
         IN  With(InsertByDate(sorted, items[i]), Rest)

\* A list left in the order of the dict.
SortByDate_unsorted(items) == items

\* news_items.sort(key=lambda x: x['date'], reverse=True)
SortByDate(items) == SortFrom(items, 1, << >>)

CardImage == "https://img.example/card.jpg"

\* What the article page answers to the request of fetch_og_image.
PageAnswers ==
    { [status |-> "error", og |-> None, twitter |-> None],
      [status |-> "404", og |-> CardImage, twitter |-> None],
      [status |-> "200", og |-> None, twitter |-> None],
      [status |-> "200", og |-> CardImage, twitter |-> None],
      [status |-> "200", og |-> "", twitter |-> CardImage] }

fetch_og_image(page) ==
    IF page.status # "200" THEN None
    ELSE IF ~Falsy(page.og) THEN page.og
    ELSE IF ~Falsy(page.twitter) THEN page.twitter
    ELSE None

\* The items of the list that the backfill requests a page for.
NeedsImage(items) == { i \in 1..Len(items) : Falsy(Get(items[i], "image")) /\ ~Falsy(Get(items[i], "url")) }

\* The backfill loop, pages[i] being the answer to the request for item i.
Backfill(items, pages) ==
    [i \in 1..Len(items) |->
        IF i \in NeedsImage(items) /\ ~Falsy(fetch_og_image(pages[i]))
        THEN Put(items[i], "image", fetch_og_image(pages[i]))
        ELSE items[i]]

keep_keywords ==
    << "android 17", "android17", "android baklava", "android 16 qpr", "qpr", "quarterly platform release" >>

hardware_keywords == << "pixel 10", "pixel 11", "pixel 10a", "pixel10", "pixel11" >>

ios_keep_keywords == << "ios 27", "ios27", "ios 26", "ios26", "ios beta", "ios preview", "ios developer" >>

ios_hardware_keywords == << "iphone 17", "iphone17", "iphone 18" >>

ItemText(item) ==
    Lower((IF "title" \in DOMAIN item THEN item.title ELSE "") \o " "
          \o (IF "summary" \in DOMAIN item THEN item.summary ELSE ""))

\* A pass that removes the hardware news only.
Keeps_unless_hardware(item, platform, keep, hardware) ==
    IF Get(item, "type") = "news" /\ Get(item, "platform") = platform
    THEN AnyIn(ItemText(item), keep) \/ ~AnyIn(ItemText(item), hardware)
    ELSE TRUE

\* Whether one pass of the strict filter keeps the item: an item of the pass's
\* platform needs a version keyword, with or without a hardware keyword; every
\* other item is kept.
Keeps(item, platform, keep, hardware) ==
    IF Get(item, "type") = "news" /\ Get(item, "platform") = platform
    THEN LET has_version  == AnyIn(ItemText(item), keep)
             has_hardware == AnyIn(ItemText(item), hardware)
         IN  IF has_version THEN TRUE
             ELSE IF has_hardware THEN FALSE
             ELSE FALSE
    ELSE TRUE

\* The Android pass, then the iOS pass.
Retain(items) ==
    LET KeepAndroid(item) == Keeps(item, "android", keep_keywords, hardware_keywords)
        KeepIos(item)     == Keeps(item, "ios", ios_keep_keywords, ios_hardware_keywords)
    IN  SelectSeq(SelectSeq(items, KeepAndroid), KeepIos)

\* The items the two passes report as removed, those of the Android pass first.
Removed(items) ==
    LET KeepAndroid(item) == Keeps(item, "android", keep_keywords, hardware_keywords)
        KeepIos(item)     == Keeps(item, "ios", ios_keep_keywords, ios_hardware_keywords)
        DropAndroid(item) == ~KeepAndroid(item)
        DropIos(item)     == ~KeepIos(item)
    IN  SelectSeq(items, DropAndroid) \o SelectSeq(SelectSeq(items, KeepAndroid), DropIos)

\* The roster of leaker accounts.
LEAKERS ==
    << [name |-> "OnLeaks", handle |-> "@OnLeaks",
        avatar |-> "https://pbs.twimg.com/profile_images/1590049827662032896/3Jdz7fGM_400x400.jpg"],
       [name |-> "Evan Blass", handle |-> "@evleaks",
        avatar |-> "https://pbs.twimg.com/profile_images/1683602571156635648/NmFNPE3__400x400.jpg"],
       [name |-> "Ice Universe", handle |-> "@UniverseIce",
        avatar |-> "https://pbs.twimg.com/profile_images/1590753781534375937/G63Fcoiq_400x400.jpg"],
       [name |-> "Mishaal Rahman", handle |-> "@MishaalRahman",
        avatar |-> "https://pbs.twimg.com/profile_images/1772892077495795712/nnAPEaB2_400x400.jpg"],
       [name |-> "Max Weinbach", handle |-> "@MaxWineworthy",
        avatar |-> "https://pbs.twimg.com/profile_images/1402848727407013888/6VrpdaKh_400x400.jpg"] >>

\* handle.replace('@', '') of a handle that starts with its only '@'
Bare(handle) == IF CharAt(handle, 1) = "@" THEN SubSeq(handle, 2, Len(handle)) ELSE handle

\* datetime.now() of run number n, as '%Y-%m-%d' and as '%Y-%m-%d %H:%M:%S'.
Today(n) == "2026-02-06"

Now(n) == "2026-02-06 " \o Pad(n, 2) \o ":00:00"

\* The leaker items of a run (the summary stands for the Chinese sentence of the
\* source, which names the handle).
get_leaker_info(n) ==
    [i \in 1..Len(LEAKERS) |->
        [id |-> "leaker_" \o Digit(i - 1),
         title |-> LEAKERS[i].name \o " (" \o LEAKERS[i].handle \o ")",
         summary |-> "Follow " \o LEAKERS[i].handle \o " for the latest Android leaks.",
         url |-> "https://twitter.com/" \o Bare(LEAKERS[i].handle),
         source |-> "Leaker", source_icon |-> "fire", date |-> Today(n),
         type |-> "leaker", image |-> LEAKERS[i].avatar]]

(***************************************************************************)
(* translator.py                                                           *)
(***************************************************************************)

\* What the translation service answers to one request.
TranslateAnswers == {"200", "500", "error"}

\* The translation of a text by the service.
Zh(text) == "zh-CN:" \o text

IsBlank(text) == \A i \in 1..Len(text) : CharAt(text, i) = " "

translate_text(text, answer) ==
    IF text = "" \/ IsBlank(text) THEN text
    ELSE IF answer = "200" THEN Zh(text)
    ELSE text

\* translate_news_item(item, 'zh-CN'), answers being those to the two requests
translate_news_item(item, answers) ==
    Put(Put(item, "title_translated", translate_text(Get(item, "title"), answers[1])),
        "summary_translated", translate_text(Get(item, "summary"), answers[2]))

\* The items of the list that scrape_all hands to translate_news_batch.
NeedsTranslation(items) == { i \in 1..Len(items) : Falsy(Get(items[i], "title_translated")) }

\* The translation step: item.update(translated_news[i]) for each item handed over.
Translate(items, answers) ==
    [i \in 1..Len(items) |->
        IF i \in NeedsTranslation(items)
        THEN LET translated == translate_news_item(items[i], answers[i])
             IN  [k \in DOMAIN items[i] \cup DOMAIN translated |-> translated[k]]
        ELSE items[i]]

\* A count that does not look at the platform.
CountPlatform_any(items, platform) == Len(items)

CountPlatform(items, platform) == Cardinality({ i \in 1..Len(items) : Get(items[i], "platform") = platform })

\* The snapshot that scrape_all writes and returns.
BuildResult(news_items, leaker_items, n) ==
    [last_updated  |-> Now(n),
     total_count   |-> Len(news_items \o leaker_items),
     news_count    |-> Len(news_items),
     android_count |-> CountPlatform(news_items, "android"),
     ios_count     |-> CountPlatform(news_items, "ios"),
     leaker_count  |-> Len(leaker_items),
     items         |-> news_items \o leaker_items]

(***************************************************************************)
(* The state: the store file and the runs of scrape_all.                   *)
(***************************************************************************)

\* The runs of scrape_all that are started.
MaxRuns == 2

\* The requests of one pass (image backfill, translation) that do not succeed.
MaxFailures == 1

\* The threads that call scrape_all: the scheduler's job and the /api/refresh
\* request handler.
Runners == {"scheduler", "refresh"}

VARIABLES
    store,          \* the file news.json: missing, a snapshot, or cut short by a failed write
    runs,           \* the number of runs started
    pc,             \* where each runner is in scrape_all
    existing_news,  \* the history the run loaded, in the order of the dict's keys
    new_news,       \* the candidates of the run
    fetch_errors,   \* the number of the run's fetcher calls that logged an error
    news_items,     \* the list the run works on
    og_requests,    \* the URLs the run's image backfill requested
    dropped,        \* the items the run's strict filters removed (its "removed" log lines)
    sent,           \* the ids of the items the run handed to the translator
    result,         \* the snapshot the run built
    unit            \* one call of a fetcher or of the classifier on its own, and what it returned

vars == << store, runs, pc, existing_news, new_news, fetch_errors, news_items, og_requests, dropped, sent, result, unit >>

\* No call on its own: the pipeline runs.
NoUnit == [op |-> "none"]

Missing == [state |-> "missing", data |-> None]

Corrupt == [state |-> "corrupt", data |-> None]

Snapshot(data) == [state |-> "ok", data |-> data]

\* load_news(): the snapshot, or the empty one when there is no file. json.load
\* raises on a file that is no JSON document.
LoadRaises(file) == file.state = "corrupt"

load_news(file) ==
    IF file.state = "ok" THEN file.data
    ELSE [items |-> << >>, last_updated |-> None, total_count |-> 0]

Init ==
    /\ store = Missing
    /\ runs = 0
    /\ pc = [r \in Runners |-> "idle"]
    /\ existing_news = [r \in Runners |-> << >>]
    /\ new_news = [r \in Runners |-> << >>]
    /\ fetch_errors = [r \in Runners |-> 0]
    /\ news_items = [r \in Runners |-> << >>]
    /\ og_requests = [r \in Runners |-> << >>]
    /\ dropped = [r \in Runners |-> << >>]
    /\ sent = [r \in Runners |-> << >>]
    /\ result = [r \in Runners |-> None]
    /\ unit = NoUnit

\* Step 1: the run starts and loads the history.
Load(r) ==
    /\ pc[r] = "idle"
    /\ runs < MaxRuns
    /\ runs' = runs + 1
    /\ IF LoadRaises(store)
       THEN /\ pc' = [pc EXCEPT ![r] = "load_failed"]
            /\ UNCHANGED existing_news
       ELSE /\ pc' = [pc EXCEPT ![r] = "fetch"]
            /\ existing_news' = [existing_news EXCEPT ![r] = NewsById(load_news(store).items)]
    /\ UNCHANGED << store, new_news, fetch_errors, news_items, og_requests, dropped, sent, result, unit >>

\* Step 2: the nineteen fetcher calls.
FetchAll(r) ==
    /\ pc[r] = "fetch"
    /\ \E o \in FetchOutcomes :
          /\ new_news' = [new_news EXCEPT ![r] = o.news]
          /\ fetch_errors' = [fetch_errors EXCEPT ![r] = o.errors]
          /\ pc' = [pc EXCEPT ![r] = IF o.raised THEN "fetch_failed" ELSE "merge"]
    /\ UNCHANGED << store, runs, existing_news, news_items, og_requests, dropped, sent, result, unit >>

\* Steps 3 and 4: merge the candidates into the history and sort by date.
MergeSort(r) ==
    /\ pc[r] = "merge"
    /\ news_items' = [news_items EXCEPT ![r] = SortByDate(Merge(existing_news[r], new_news[r]))]
    /\ pc' = [pc EXCEPT ![r] = "backfill"]
    /\ UNCHANGED << store, runs, existing_news, new_news, fetch_errors, og_requests, dropped, sent, result, unit >>

\* Step 4.5: request the page of every item without an image.
ImageBackfill(r) ==
    /\ pc[r] = "backfill"
    /\ LET need == NeedsImage(news_items[r])
       IN  /\ \E pages \in [need -> PageAnswers] :
                 /\ Cardinality({ i \in need : Falsy(fetch_og_image(pages[i])) }) <= MaxFailures
                 /\ news_items' = [news_items EXCEPT ![r] = Backfill(news_items[r], pages)]
           /\ og_requests' = [og_requests EXCEPT ![r] =
                                 [k \in 1..Cardinality(need) |->
                                     news_items[r][CHOOSE i \in need :
                                         Cardinality({ j \in need : j < i }) = k - 1].url]]
    /\ pc' = [pc EXCEPT ![r] = "filter"]
    /\ UNCHANGED << store, runs, existing_news, new_news, fetch_errors, dropped, sent, result, unit >>

\* Steps 4.6 and 4.7: the strict filters.
StrictFilter(r) ==
    /\ pc[r] = "filter"
    /\ news_items' = [news_items EXCEPT ![r] = Retain(news_items[r])]
    /\ dropped' = [dropped EXCEPT ![r] = Removed(news_items[r])]
    /\ pc' = [pc EXCEPT ![r] = "translate"]
    /\ UNCHANGED << store, runs, existing_news, new_news, fetch_errors, og_requests, sent, result, unit >>

\* Steps 5 to 7 and the counts: the leaker items, the translation, the snapshot.
Enrich(r) ==
    /\ pc[r] = "translate"
    /\ LET need == NeedsTranslation(news_items[r])
       IN  /\ \E answers \in [need -> TranslateAnswers \X TranslateAnswers] :
                 /\ Cardinality({ c \in need \X {1, 2} : answers[c[1]][c[2]] # "200" }) <= MaxFailures
                 /\ news_items' = [news_items EXCEPT ![r] = Translate(news_items[r], answers)]
                 /\ result' = [result EXCEPT ![r] =
                                  BuildResult(Translate(news_items[r], answers), get_leaker_info(runs), runs)]
           /\ sent' = [sent EXCEPT ![r] =
                          [k \in 1..Cardinality(need) |->
                              news_items[r][CHOOSE i \in need :
                                  Cardinality({ j \in need : j < i }) = k - 1].id]]
    /\ pc' = [pc EXCEPT ![r] = "persist"]
    /\ UNCHANGED << store, runs, existing_news, new_news, fetch_errors, og_requests, dropped, unit >>

\* A write that reads the file again and keeps the news items it finds there
\* and the snapshot lacks.
Persist_merged(r) ==
    /\ pc[r] = "persist"
    /\ LET kept == IF store.state = "ok"
                   THEN SelectSeq(store.data.items,
                                  LAMBDA item : Get(item, "type") = "news" /\ item.id \notin Ids(result[r].items))
                   ELSE << >>
       IN  store' = Snapshot([result[r] EXCEPT !.items = kept \o result[r].items])
    /\ pc' = [pc EXCEPT ![r] = "done"]
    /\ UNCHANGED << runs, existing_news, new_news, fetch_errors, news_items, og_requests, dropped, sent, result, unit >>

\* Step 8: the file is overwritten with the snapshot.
Persist(r) ==
    /\ pc[r] = "persist"
    /\ store' = Snapshot(result[r])
    /\ pc' = [pc EXCEPT ![r] = "done"]
    /\ UNCHANGED << runs, existing_news, new_news, fetch_errors, news_items, og_requests, dropped, sent, result, unit >>

\* Step 8 when the write fails: open(NEWS_FILE, 'w') has emptied the file, json.dump
\* raises, and the exception leaves scrape_all with its local data.
PersistFails(r) ==
    /\ pc[r] = "persist"
    /\ store' = Corrupt
    /\ pc' = [pc EXCEPT ![r] = "write_failed"]
    /\ existing_news' = [existing_news EXCEPT ![r] = << >>]
    /\ new_news' = [new_news EXCEPT ![r] = << >>]
    /\ fetch_errors' = [fetch_errors EXCEPT ![r] = 0]
    /\ news_items' = [news_items EXCEPT ![r] = << >>]
    /\ og_requests' = [og_requests EXCEPT ![r] = << >>]
    /\ dropped' = [dropped EXCEPT ![r] = << >>]
    /\ sent' = [sent EXCEPT ![r] = << >>]
    /\ result' = [result EXCEPT ![r] = None]
    /\ UNCHANGED << runs, unit >>

\* scrape_all has returned, or an exception has left it: the thread is free again.
Return(r) ==
    /\ pc[r] \in {"done", "load_failed", "fetch_failed", "write_failed"}
    /\ pc' = [pc EXCEPT ![r] = "idle"]
    /\ existing_news' = [existing_news EXCEPT ![r] = << >>]
    /\ new_news' = [new_news EXCEPT ![r] = << >>]
    /\ fetch_errors' = [fetch_errors EXCEPT ![r] = 0]
    /\ news_items' = [news_items EXCEPT ![r] = << >>]
    /\ og_requests' = [og_requests EXCEPT ![r] = << >>]
    /\ dropped' = [dropped EXCEPT ![r] = << >>]
    /\ sent' = [sent EXCEPT ![r] = << >>]
    /\ result' = [result EXCEPT ![r] = None]
    /\ UNCHANGED << store, runs, unit >>

Step(r) ==
    \/ Load(r)
    \/ FetchAll(r)
    \/ MergeSort(r)
    \/ ImageBackfill(r)
    \/ StrictFilter(r)
    \/ Enrich(r)
    \/ Persist(r)
    \/ PersistFails(r)
    \/ Return(r)

\* The runs of the scheduler's job, which never overlap (the job has one instance).
Next == Step("scheduler")

Spec == Init /\ [][Next]_vars

\* The places of a runner in scrape_all.
Stages ==
    {"idle", "fetch", "merge", "backfill", "filter", "translate", "persist", "done",
     "load_failed", "fetch_failed", "write_failed"}

\* The runner leaves one of the steps between the load and the write.
Advance(r) ==
    /\ pc[r] \in {"fetch", "merge", "backfill", "filter", "translate"}
    /\ \E next \in Stages \ {pc[r]} : pc' = [pc EXCEPT ![r] = next]

\* The thread that runs scrape_all does not stall between the load and the
\* write: the loops of these steps are over finite lists, and a request that
\* gets no answer ends as a failed one.
FairSpec == Spec /\ \A r \in Runners : WF_pc(Advance(r))

\* The candidates of one run of the two that overlap.
MaxRaceCandidates == 1

\* The runs of the race: few candidates, every fetcher call without an error,
\* every requested page with an image and every text translated.
RaceBound ==
    \A r \in Runners :
        /\ Len(new_news[r]) <= MaxRaceCandidates
        /\ fetch_errors[r] = 0
        /\ pc[r] \in {"filter", "translate", "persist", "done"} =>
               \A i \in 1..Len(news_items[r]) : ~Falsy(Get(news_items[r][i], "image"))
        /\ pc[r] \in {"persist", "done"} =>
               \A i \in 1..Len(news_items[r]) :
                   /\ news_items[r][i].title_translated = translate_text(news_items[r][i].title, "200")
                   /\ news_items[r][i].summary_translated = translate_text(news_items[r][i].summary, "200")

\* The scheduler's job and a /api/refresh request, each in a thread of its own
\* (app.py 16-19 and 45-49): nothing keeps one from running scrape_all while
\* the other does.
NextRace ==
    \E r \in Runners :
        \/ Load(r) /\ RaceBound'
        \/ FetchAll(r) /\ RaceBound'
        \/ MergeSort(r) /\ RaceBound'
        \/ ImageBackfill(r) /\ RaceBound'
        \/ StrictFilter(r) /\ RaceBound'
        \/ Enrich(r) /\ RaceBound'
        \/ Persist(r) /\ RaceBound'
        \/ PersistFails(r) /\ RaceBound'
        \/ Return(r) /\ RaceBound'

SpecRace == Init /\ [][NextRace]_vars

(***************************************************************************)
(* The classifier and the fetchers, each called on its own.                *)
(***************************************************************************)

\* The number of phrases of a classified text.
MaxPhrases == 2

Phrases == { "Android 17", "iOS 27 beta", "QPR", "ios developer", "Pixel 10", "review", "iPhone 17", "Material You" }

\* The texts handed to the classifier: up to MaxPhrases phrases.
Texts == { Join(ps) : ps \in SeqsUpTo(Phrases, MaxPhrases) }

\* The raw date strings handed to parse_news_date.
RawDates ==
    { "", "2026-01-28T10:00:00+0000", "2026-01-28T00:00:00+0000", "2026-01-28T00:00:00",
      "2026-01-28", "2026-01-28 00:00:30", "2026-02-03 09:15:00",
      "Wed, 28 Jan 2026 00:00:00 +0000", "Tue, 03 Feb 2026 09:15:59 +0100",
      "not a date", "2026-13-45", "2026-01-28T25:00:00+0000",
      "yesterday at noon 2026/01/28/ or maybe the day before that one" }

\* The URLs handed with them.
DateUrls ==
    { "", "https://a.com/2026/01/28/foo", "https://a.com/2026/01/28", "https://a.com/2026-1-5/",
      "https://a.com/x-2026-02-03", "https://a.com/1999/01/28/x", "https://a.com/2026/13/01/x",
      "https://a.com/1999/01/28/2026/02/03/", "https://a.com/2026/00/12/2026-02-03",
      "https://a.com/android-17-beta-2/" }

\* The pairs of news items handed to the strict filters: one as a run loads it
\* from the store, with an image and the translated fields, its text in the
\* title; one as a fetcher returns it, from another source, with another
\* date, without an image, its text in the summary.
FilterPairs ==
    { << [id |-> "aaaaaaaaaaaa", title |-> t, summary |-> "", url |-> UrlA1,
          source |-> "Android Authority", source_icon |-> "AA", date |-> "2026-01-28 10:00",
          type |-> "news", platform |-> p, image |-> FeedImage,
          title_translated |-> Zh(t), summary_translated |-> ""],
         [id |-> "bbbbbbbbbbbb", title |-> "", summary |-> u, url |-> UrlM1,
          source |-> "9to5Mac", source_icon |-> "9to5", date |-> "",
          type |-> "news", platform |-> q, image |-> None] >> :
        t \in Texts, u \in Phrases \cup {""}, p \in {"android", "ios"}, q \in {"android", "ios"} }

Units ==
    { [op |-> "detect_platform", text |-> t, returned |-> FALSE, value |-> ""] : t \in Texts }
    \cup { [op |-> "parse_news_date", date_str |-> d, url |-> u, returned |-> FALSE, value |-> ""] :
            d \in RawDates, u \in DateUrls }
    \cup { [op |-> "filter", items |-> pair, returned |-> FALSE, value |-> << >>] : pair \in FilterPairs }
    \cup UNION { { [op |-> "fetch", fetcher |-> f, resp |-> resp, returned |-> FALSE,
                    value |-> [news |-> << >>, error |-> FALSE, raised |-> FALSE]] :
                  resp \in Answers(f, MaxCandidates) } : f \in Fetchers }

InitUnits ==
    /\ store = Missing
    /\ runs = 0
    /\ pc = [r \in Runners |-> "idle"]
    /\ existing_news = [r \in Runners |-> << >>]
    /\ new_news = [r \in Runners |-> << >>]
    /\ fetch_errors = [r \in Runners |-> 0]
    /\ news_items = [r \in Runners |-> << >>]
    /\ og_requests = [r \in Runners |-> << >>]
    /\ dropped = [r \in Runners |-> << >>]
    /\ sent = [r \in Runners |-> << >>]
    /\ result = [r \in Runners |-> None]
    /\ unit \in Units

\* detect_platform(text) returns.
Classify ==
    /\ unit.op = "detect_platform" /\ ~unit.returned
    /\ unit' = [unit EXCEPT !.returned = TRUE, !.value = detect_platform(unit.text)]
    /\ UNCHANGED << store, runs, pc, existing_news, new_news, fetch_errors, news_items, og_requests, dropped, sent, result >>

\* parse_news_date(date_str, url) returns.
Normalize ==
    /\ unit.op = "parse_news_date" /\ ~unit.returned
    /\ unit' = [unit EXCEPT !.returned = TRUE, !.value = parse_news_date(unit.date_str, unit.url)]
    /\ UNCHANGED << store, runs, pc, existing_news, new_news, fetch_errors, news_items, og_requests, dropped, sent, result >>

\* The fetcher returns its list to scrape_all.
Fetch ==
    /\ unit.op = "fetch" /\ ~unit.returned
    /\ unit' = [unit EXCEPT !.returned = TRUE, !.value = ResultTable[unit.fetcher][unit.resp]]
    /\ UNCHANGED << store, runs, pc, existing_news, new_news, fetch_errors, news_items, og_requests, dropped, sent, result >>

\* The two strict filters have gone over the list.
Filter ==
    /\ unit.op = "filter" /\ ~unit.returned
    /\ unit' = [unit EXCEPT !.returned = TRUE, !.value = Retain(unit.items)]
    /\ UNCHANGED << store, runs, pc, existing_news, new_news, fetch_errors, news_items, og_requests, dropped, sent, result >>

NextUnits == Classify \/ Normalize \/ Fetch \/ Filter

SpecUnits == InitUnits /\ [][NextUnits]_vars

(***************************************************************************)
(* Dedup and merge.                                                        *)
(***************************************************************************)

\* The news items of a snapshot.
NewsOf(data) == SelectSeq(data.items, LAMBDA item : Get(item, "type") = "news")

\* The record stored under an id.
Stored(items, id) == items[IndexOfId(items, id)]

\* The candidates of the run whose id the history already holds with other fields.
Clashes(r) ==
    { i \in 1..Len(new_news[r]) :
        /\ new_news[r][i].id \in Ids(existing_news[r])
        /\ new_news[r][i].title # Stored(existing_news[r], new_news[r][i].id).title }

\* C1: merging the candidates of a run into the history a second time changes
\* nothing, neither the ids nor their order nor any field of any record:
\* merge(merge(H, C), C) = merge(H, C).
MergeIdempotent ==
    \A r \in Runners :
        Merge(Merge(existing_news[r], new_news[r]), new_news[r]) = Merge(existing_news[r], new_news[r])

\* A run about to merge, into a history that is not empty, a candidate the history
\* holds with another title and a candidate it does not hold.
MergeIdempotentWitness ==
    \E r \in Runners :
        /\ pc[r] = "merge"
        /\ Clashes(r) # {}
        /\ \E i \in 1..Len(new_news[r]) : new_news[r][i].id \notin Ids(existing_news[r])
        /\ Len(Merge(existing_news[r], new_news[r])) > Len(existing_news[r])

\* The fields a fetcher sets.
FetchedFields == {"id", "title", "summary", "url", "source", "source_icon", "date", "type", "platform"}

\* C2: a record of the history comes out of the merge as it went in, whatever
\* the candidates of the same id say; and the snapshot a run builds holds every
\* record of the history it kept with the fetched fields it had (the image too,
\* when it had one).
FirstWriteWins ==
    \A r \in Runners :
        /\ \A i \in 1..Len(existing_news[r]) :
              Stored(Merge(existing_news[r], new_news[r]), existing_news[r][i].id) = existing_news[r][i]
        /\ pc[r] \in {"persist", "done"} =>
              \A i \in 1..Len(existing_news[r]) :
                  LET old == existing_news[r][i]
                  IN  old.id \in Ids(NewsOf(result[r])) =>
                        LET new == Stored(NewsOf(result[r]), old.id)
                        IN  /\ \A k \in FetchedFields : new[k] = old[k]
                            /\ ~Falsy(old.image) => new.image = old.image

\* A run has built its snapshot after a candidate came with the id of a stored
\* record and another title, and the snapshot holds the record with its old title.
FirstWriteWinsWitness ==
    \E r \in Runners :
        /\ pc[r] = "persist"
        /\ \E i \in Clashes(r) :
              /\ new_news[r][i].id \in Ids(NewsOf(result[r]))
              /\ Stored(NewsOf(result[r]), new_news[r][i].id).title
                    = Stored(existing_news[r], new_news[r][i].id).title

\* C3: the merge removes no id of the history (|merge(H, C)| >= |H|), and every
\* news id of the store a run read is in the snapshot the run builds and writes,
\* unless one of the strict filters removed the item in this run.
HistoryKept ==
    \A r \in Runners :
        /\ Ids(existing_news[r]) \subseteq Ids(Merge(existing_news[r], new_news[r]))
        /\ Len(Merge(existing_news[r], new_news[r])) >= Len(existing_news[r])
        /\ pc[r] \in {"persist", "done"} =>
              Ids(existing_news[r]) \subseteq Ids(NewsOf(result[r])) \cup Ids(dropped[r])
        /\ pc[r] = "done" =>
              /\ store.state = "ok"
              /\ Ids(existing_news[r]) \subseteq Ids(NewsOf(store.data)) \cup Ids(dropped[r])

\* A run has written its snapshot: it had read a store with news in it, merged
\* a new candidate, filtered a candidate out, and the file holds every id it read.
HistoryKeptWitness ==
    \E r \in Runners :
        /\ pc[r] = "done"
        /\ existing_news[r] # << >>
        /\ dropped[r] # << >>
        /\ Len(NewsOf(store.data)) > Len(existing_news[r])
        /\ Ids(existing_news[r]) \subseteq Ids(NewsOf(store.data))

\* The items of a list are all of different ids.
DistinctIds(items) == \A i, j \in 1..Len(items) : items[i].id = items[j].id => i = j

\* C4: no two news items of a written snapshot share an id, whatever the store
\* held and whatever the fetchers returned; two candidates of the same URL have
\* the same id, whichever fetcher or query returned them.
UniqueIds ==
    /\ store.state = "ok" => DistinctIds(NewsOf(store.data))
    /\ \A r \in Runners :
          /\ pc[r] \in {"persist", "done"} => DistinctIds(NewsOf(result[r]))
          /\ \A i, j \in 1..Len(new_news[r]) :
                new_news[r][i].url = new_news[r][j].url => new_news[r][i].id = new_news[r][j].id

\* A run has written its snapshot after two fetchers returned the same URL with
\* different titles, and the file holds one news item of that id.
UniqueIdsWitness ==
    \E r \in Runners :
        /\ pc[r] = "done"
        /\ store.state = "ok"
        /\ \E i, j \in 1..Len(new_news[r]) :
              /\ i # j
              /\ new_news[r][i].url = new_news[r][j].url
              /\ new_news[r][i].title # new_news[r][j].title
              /\ Cardinality({ k \in 1..Len(NewsOf(store.data)) :
                                NewsOf(store.data)[k].id = new_news[r][i].id }) = 1

(***************************************************************************)
(* Retention.                                                              *)
(***************************************************************************)

IsPlatformNews(item) == Get(item, "type") = "news" /\ Get(item, "platform") \in {"android", "ios"}

\* The lists after the strict filters say what a version set says: a platform
\* item is kept exactly when its text holds a keyword of its platform's set.
RetainedBy(VersionSet(_)) ==
    \A r \in Runners :
        pc[r] = "translate" =>
            /\ Len(news_items[r]) + Len(dropped[r]) = Len(Merge(existing_news[r], new_news[r]))
            /\ \A i \in 1..Len(news_items[r]) :
                  IsPlatformNews(news_items[r][i]) =>
                      AnyIn(ItemText(news_items[r][i]), VersionSet(news_items[r][i].platform))
            /\ \A i \in 1..Len(dropped[r]) :
                  /\ IsPlatformNews(dropped[r][i])
                  /\ ~AnyIn(ItemText(dropped[r][i]), VersionSet(dropped[r][i].platform))

\* The version sets of the strict filters.
CodeVersionSet(platform) == IF platform = "android" THEN keep_keywords ELSE ios_keep_keywords

\* The version sets with "beta" and "developer preview" among their keywords.
BetaVersionSet(platform) == CodeVersionSet(platform) \o << "beta", "developer preview" >>

\* C5 (as amended): the strict filters keep a platform news item if and only if
\* the lower-cased text of its title and summary holds a keyword of its
\* platform's version set, the sets being those of the filters: for Android the
\* version names and "qpr"/"quarterly platform release", for iOS the version
\* names and "ios beta", "ios preview", "ios developer". An item with hardware
\* keywords only, or with neither kind, is removed.
RetainedByVersion == RetainedBy(CodeVersionSet)

\* C5 (as stated): the same with "beta" and "developer preview" as version keywords.
RetainedByVersionOrBeta == RetainedBy(BetaVersionSet)

\* The filters have kept an item with a version keyword and removed one with a
\* hardware keyword only and one with neither.
RetainedByVersionWitness ==
    \E r \in Runners :
        /\ pc[r] = "translate"
        /\ \E i \in 1..Len(news_items[r]) :
              /\ IsPlatformNews(news_items[r][i])
              /\ AnyIn(ItemText(news_items[r][i]), keep_keywords)
        /\ \E i \in 1..Len(dropped[r]) : AnyIn(ItemText(dropped[r][i]), hardware_keywords)
        /\ \E i \in 1..Len(dropped[r]) :
              ~AnyIn(ItemText(dropped[r][i]), hardware_keywords \o ios_hardware_keywords)

(***************************************************************************)
(* Inclusion and classification.                                           *)
(***************************************************************************)

\* The combined keyword list of a platform.
PlatformKeywords(platform) == IF platform = "ios" THEN IOS_KEYWORDS ELSE ANDROID_KEYWORDS

\* C6: every candidate that the fetchers, feed or search, hand to the merge has
\* in its text (title and summary) a keyword of the combined list of the
\* platform it is tagged with.
CandidatesIncluded ==
    \A r \in Runners :
        \A i \in 1..Len(new_news[r]) :
            AnyIn(ItemText(new_news[r][i]), PlatformKeywords(new_news[r][i].platform))

MatchesAndroid(text) == AnyIn(Lower(text), ANDROID_KEYWORDS)

MatchesIos(text) == AnyIn(Lower(text), IOS_KEYWORDS)

\* C7: the classifier returns android or ios for every text: android when the
\* text matches the Android keywords, with or without the iOS ones, ios when it
\* matches the iOS keywords only, android when it matches neither.
ClassifierRule ==
    (unit.op = "detect_platform" /\ unit.returned) =>
        /\ unit.value \in {"android", "ios"}
        /\ MatchesAndroid(unit.text) => unit.value = "android"
        /\ (MatchesIos(unit.text) /\ ~MatchesAndroid(unit.text)) => unit.value = "ios"
        /\ (~MatchesIos(unit.text) /\ ~MatchesAndroid(unit.text)) => unit.value = "android"

\* The classifier has returned android for a text that matches both keyword sets.
ClassifierRuleWitness ==
    /\ unit.op = "detect_platform" /\ unit.returned
    /\ MatchesAndroid(unit.text) /\ MatchesIos(unit.text)
    /\ unit.value = "android"

(***************************************************************************)
(* Failures.                                                               *)
(***************************************************************************)

\* C8: a fetcher call in which an error occurred returns no candidate, however
\* many entries it had processed before the error.
FailedFetchEmpty ==
    (unit.op = "fetch" /\ unit.returned /\ unit.value.error) => unit.value.news = << >>

\* The requests of the run's image backfill that gave no image.
ImageFailures(r) ==
    { k \in 1..Len(og_requests[r]) :
        \E i \in 1..Len(NewsOf(result[r])) :
            /\ NewsOf(result[r])[i].url = og_requests[r][k]
            /\ Falsy(NewsOf(result[r])[i].image) }

\* The items the run handed to the translator that came back without a translation.
TranslationFailures(r) ==
    { k \in 1..Len(sent[r]) :
        \E i \in 1..Len(NewsOf(result[r])) :
            /\ NewsOf(result[r])[i].id = sent[r][k]
            /\ NewsOf(result[r])[i].title # ""
            /\ NewsOf(result[r])[i].title_translated = NewsOf(result[r])[i].title }

\* C9: whatever sources, image requests and translation requests fail, a run that
\* has loaded its store goes on to the persist step: no exception of a fetcher
\* leaves scrape_all, and the snapshot it has built by then holds every item of
\* the merged list that the strict filters keep.
RunReachesPersist ==
    /\ [](\A r \in Runners : pc[r] # "fetch_failed")
    /\ [](\A r \in Runners :
            pc[r] = "persist" =>
                Ids(Retain(Merge(existing_news[r], new_news[r]))) \subseteq Ids(NewsOf(result[r])))
    /\ \A r \in Runners : (pc[r] = "fetch") ~> (pc[r] = "persist")

\* A run is at the persist step after a fetcher, an image request and a
\* translation request failed, with a candidate of another fetcher in its snapshot.
RunReachesPersistWitness ==
    \E r \in Runners :
        /\ pc[r] = "persist"
        /\ fetch_errors[r] > 0
        /\ ImageFailures(r) # {}
        /\ TranslationFailures(r) # {}
        /\ \E i \in 1..Len(new_news[r]) : new_news[r][i].id \in Ids(NewsOf(result[r]))

\* C10: a run that finds the store file missing or corrupt goes on with an empty
\* history: reading the store never ends the run.
StoreReadNeverFatal ==
    \A r \in Runners :
        /\ pc[r] # "load_failed"
        /\ (pc[r] = "fetch" /\ store.state # "ok") => existing_news[r] = << >>

(***************************************************************************)
(* Date normalization.                                                     *)
(***************************************************************************)

\* "YYYY-MM-DD"
IsDateOnly(s) == Len(s) = 10 /\ IsYMD(s, 1)

\* "YYYY-MM-DD HH:MM"
IsDateMinute(s) ==
    /\ Len(s) = 16 /\ IsYMD(s, 1) /\ CharAt(s, 11) = " "
    /\ AllDigits(s, 12, 2) /\ CharAt(s, 14) = ":" /\ AllDigits(s, 15, 2)

\* A year in 2000..2100, a month in 1..12 and a day in 1..31.
InRange(year, month, day) ==
    2000 <= year /\ year <= 2100 /\ 1 <= month /\ month <= 12 /\ 1 <= day /\ day <= 31

\* One of the parsers accepts the string, and what it reads.
Reading(date_str) == FirstParsed(<< DateutilParse(date_str), StrptimeFormats(date_str) >>)

\* Some stretch of the URL that one of the four patterns matches spells the date.
UrlCarries(url, date) ==
    \E p \in 1..Len(date_patterns), i \in 1..Len(url), w \in 1..Len(Widths) :
        /\ MatchesAt(url, date_patterns[p], i, Widths[w][1], Widths[w][2])
        /\ LET g == Groups(url, date_patterns[p], i, w)
           IN  /\ InRange(g.year, g.month, g.day)
               /\ date = Pad(g.year, 4) \o "-" \o Pad(g.month, 2) \o "-" \o Pad(g.day, 2)

\* No pattern has a first match in the URL that is a date in range.
NoUrlDate(url) ==
    \A p \in 1..Len(date_patterns) :
        LET m == ReSearch(url, date_patterns[p])
        IN  m.found => ~InRange(m.year, m.month, m.day)

Snapshots ==
    (IF store.state = "ok" THEN {store.data} ELSE {})
        \cup { result[r] : r \in { q \in Runners : pc[q] \in {"persist", "done"} } }

\* The number of items of type news in a list.
NewsLen(items) == Cardinality({ i \in 1..Len(items) : Get(items[i], "type") = "news" })

\* C12: in every snapshot the items are the news items, newest date string
\* first (no item comes before one with a greater date string), and behind
\* them the items of the leaker roster, one per account in the order of the
\* roster, and nothing else: no leaker item stands among the news and none of
\* the store read at the start is carried over.
NewsThenLeakers ==
    \A snap \in Snapshots :
        LET items == snap.items
            k     == NewsLen(items)
        IN  /\ Len(items) = k + Len(LEAKERS)
            /\ \A i \in 1..k : Get(items[i], "type") = "news"
            /\ \A i \in 1..k, j \in 1..k : i < j => ~StrLess(items[i].date, items[j].date)
            /\ \A i \in 1..Len(LEAKERS) :
                  /\ items[k + i].type = "leaker"
                  /\ items[k + i].id = "leaker_" \o Digit(i - 1)
                  /\ items[k + i].title = LEAKERS[i].name \o " (" \o LEAKERS[i].handle \o ")"
                  /\ items[k + i].image = LEAKERS[i].avatar

\* A second run has written a snapshot with news of two dates, the read store
\* holding the leaker items of the first run.
NewsThenLeakersWitness ==
    /\ runs = 2 /\ pc["scheduler"] = "done" /\ store.state = "ok"
    /\ existing_news["scheduler"] # << >>
    /\ \E i \in 1..NewsLen(store.data.items), j \in 1..NewsLen(store.data.items) :
          StrLess(store.data.items[j].date, store.data.items[i].date)
    /\ \E i \in 1..Len(new_news["scheduler"]) :
          /\ new_news["scheduler"][i].id \notin Ids(existing_news["scheduler"])
          /\ \E j \in 1..Len(existing_news["scheduler"]) :
                StrLess(existing_news["scheduler"][j].date, new_news["scheduler"][i].date)

\* The number of items of a list with the given type and platform.
CountOf(items, type, platform) ==
    Cardinality({ i \in 1..Len(items) :
                    Get(items[i], "type") = type /\ Get(items[i], "platform") = platform })

\* C13: the counts of every snapshot agree with its items: total_count is the
\* number of items and the sum of news_count and leaker_count; news_count is
\* the number of items of type news and the sum of android_count and
\* ios_count; android_count and ios_count are the numbers of news items of
\* each platform; leaker_count is the number of the other items.
CountsAgree ==
    \A snap \in Snapshots :
        /\ snap.total_count = Len(snap.items)
        /\ snap.total_count = snap.news_count + snap.leaker_count
        /\ snap.news_count = NewsLen(snap.items)
        /\ snap.news_count = snap.android_count + snap.ios_count
        /\ snap.android_count = CountOf(snap.items, "news", "android")
        /\ snap.ios_count = CountOf(snap.items, "news", "ios")
        /\ snap.leaker_count = Len(snap.items) - NewsLen(snap.items)

\* A snapshot with news of both platforms is in the file.
CountsAgreeWitness ==
    /\ store.state = "ok" /\ pc["scheduler"] = "done"
    /\ store.data.android_count >= 1 /\ store.data.ios_count >= 1
    /\ store.data.total_count = store.data.news_count + Len(LEAKERS)

\* The runners whose run is past the strict filters.
Filtered == { r \in Runners : pc[r] \in {"translate", "persist", "done"} }

\* C14: the image backfill requests a page only for an item that the strict
\* filters of the same run keep: no URL the run requested is the URL of an item
\* the run removed.
BackfillOnlyForKept ==
    \A r \in Filtered :
        \A k \in 1..Len(og_requests[r]), d \in 1..Len(dropped[r]) :
            og_requests[r][k] # dropped[r][d].url

\* A run requests no page twice.
BackfillOncePerItem ==
    \A r \in Runners :
        \A k \in 1..Len(og_requests[r]), l \in 1..Len(og_requests[r]) :
            og_requests[r][k] = og_requests[r][l] => k = l

\* The runners whose run has built its snapshot.
Built == { r \in Runners : pc[r] \in {"persist", "done"} }

\* Every field of the record that is not empty holds the same value in the other.
KeepsFields(old, new) ==
    \A f \in DOMAIN old : ~Falsy(old[f]) => (f \in DOMAIN new /\ new[f] = old[f])

\* C15: the image backfill and the translation step only add: every field
\* of a stored item that was not empty when the run loaded it (its image, its
\* title_translated, its summary_translated and the fetched fields) has the
\* same value in the snapshot the run builds, and no field is gone.
AdditiveOnly ==
    \A r \in Built :
        \A i \in 1..NewsLen(result[r].items) :
            LET new == result[r].items[i]
            IN  new.id \in Ids(existing_news[r]) =>
                    KeepsFields(existing_news[r][IndexOfId(existing_news[r], new.id)], new)

\* The field is not there, or holds nothing.
Absent(item, field) == field \notin DOMAIN item \/ Falsy(item[field])

\* The ids in a list of ids.
Range(ids) == { ids[i] : i \in 1..Len(ids) }

\* C16: a failed translation leaves the translated fields absent: in the
\* snapshot a run builds, each item the run handed to the translator has in
\* title_translated the translation of its title or nothing, and in
\* summary_translated the translation of its summary or nothing; never the
\* text that the failed request was to translate.
FailedTranslationAbsent ==
    \A r \in Built :
        \A i \in 1..NewsLen(result[r].items) :
            LET item == result[r].items[i]
            IN  item.id \in Range(sent[r]) =>
                    /\ Absent(item, "title_translated") \/ item.title_translated = Zh(item.title)
                    /\ Absent(item, "summary_translated") \/ item.summary_translated = Zh(item.summary)

\* The stored record shows that an earlier run handed the item to the
\* translator: translate_news_item has set both translated fields.
WasTranslated(item) == "title_translated" \in DOMAIN item /\ "summary_translated" \in DOMAIN item

\* C17: no item is handed to the translator twice: a run hands over no item
\* that it loaded from the store with the translated fields an earlier run
\* gave it.
TranslatedOnce ==
    \A r \in Built :
        \A id \in Range(sent[r]) :
            id \in Ids(existing_news[r]) =>
                ~WasTranslated(existing_news[r][IndexOfId(existing_news[r], id)])

\* The ids of the news items of a snapshot.
NewsIds(snap) == { snap.items[i].id : i \in 1..NewsLen(snap.items) }

\* C18: runs that overlap are not coordinated. A run that writes leaves in the
\* file its own snapshot, whole, whatever another run wrote there since this run
\* read the store; so after two runs wrote, the file holds the snapshot of one
\* of them, the later writer.
LastWriterWins ==
    [][ /\ \A r \in Runners :
              (pc[r] = "persist" /\ pc'[r] = "done") => store' = Snapshot(result[r])
        /\ (\A r \in Runners : pc'[r] = "done") =>
              \E r \in Runners : store' = Snapshot(result'[r]) ]_vars

\* Both runs read the store before either wrote, both wrote, and an id that
\* only the earlier writer added is not in the file.
LastWriterWinsWitness ==
    \E a \in Runners, b \in Runners :
        /\ a # b
        /\ pc[a] = "done" /\ pc[b] = "done"
        /\ existing_news[a] = existing_news[b]
        /\ store = Snapshot(result[b])
        /\ \E id \in NewsIds(result[a]) :
              /\ id \notin Ids(existing_news[a])
              /\ id \notin NewsIds(result[b])
              /\ id \notin NewsIds(store.data)

\* The candidates in the opposite order of arrival.
Reverse(items) == [i \in 1..Len(items) |-> items[Len(items) + 1 - i]]

\* The first candidate with the id, in the order of arrival.
FirstWithId(items, id) ==
    items[CHOOSE i \in 1..Len(items) : items[i].id = id /\ \A j \in 1..(i - 1) : items[j].id # id]

\* The merge of a history with candidates in one order of arrival: the ids are
\* those of the history and of the candidates; an id of the history keeps
\* the record of the history; any other id gets the record of the first
\* candidate that carries it.
MergedAsArrived(H, C) ==
    LET merged == Merge(H, C)
    IN  /\ Ids(merged) = Ids(H) \cup Ids(C)
        /\ \A id \in Ids(merged) :
              Stored(merged, id) = IF id \in Ids(H) THEN Stored(H, id) ELSE FirstWithId(C, id)

\* What does not depend on the order of arrival: for the history and the
\* candidates of a run, in the order they arrived and in the opposite order,
\* the merge yields the same set of ids; the record of an id of the history is the history's in both
\* orders; the record of a new id is that of the first candidate with the id
\* in the order at hand, and so the same in both orders when the candidates
\* that share the id are equal.
MergeOrderIndependentIds ==
    \A r \in Runners :
        LET H == existing_news[r]
            C == new_news[r]
        IN  /\ MergedAsArrived(H, C)
            /\ MergedAsArrived(H, Reverse(C))
            /\ Ids(Merge(H, C)) = Ids(Merge(H, Reverse(C)))
            /\ \A id \in Ids(Merge(H, C)) :
                  (id \in Ids(H) \/ \A i \in 1..Len(C), j \in 1..Len(C) : C[i].id = C[j].id => C[i] = C[j])
                      => Stored(Merge(H, C), id) = Stored(Merge(H, Reverse(C)), id)

\* C19: the merge does not depend on the order in which the candidates arrive:
\* for the history and the candidates of a run, merged in the order they
\* arrived and in the opposite order, every id has the same stored record.
MergeOrderIndependent ==
    \A r \in Runners :
        \A id \in Ids(Merge(existing_news[r], new_news[r])) :
            Stored(Merge(existing_news[r], new_news[r]), id)
                = Stored(Merge(existing_news[r], Reverse(new_news[r])), id)

\* Two candidates of a run share an id that the history does not hold and
\* differ in a field, and the run has merged them; a candidate of the run
\* carries an id of the history with other fields.
MergeOrderIndependentIdsWitness ==
    LET H == existing_news["scheduler"]
        C == new_news["scheduler"]
    IN  /\ pc["scheduler"] = "backfill"
        /\ \E i \in 1..Len(C), j \in 1..Len(C) :
              /\ C[i].id = C[j].id /\ C[i] # C[j] /\ C[i].id \notin Ids(H)
              /\ Stored(Merge(H, C), C[i].id) # Stored(Merge(H, Reverse(C)), C[i].id)

\* The news items a run ends with, from the history it loads and the candidates
\* it is handed: merged, sorted and filtered (the backfill and the translation
\* neither add nor remove an item).
NewsAfterRun(H, C) == Retain(SortByDate(Merge(H, C)))

\* C20: a second run with the fetcher outputs of the first changes neither the
\* set of news ids nor news_count, and yields no id twice. For every run that
\* has written its snapshot: the snapshot's news are the merged, sorted and
\* filtered history and candidates of the run, and a run that loads this
\* snapshot and is handed the same candidates again ends with the same ids, as
\* many news, each id once. And when a second run loads a history of one
\* item and is handed one candidate with that item's id, news_count is 1.
RerunSameOutputs ==
    \A r \in Runners :
        pc[r] = "done" =>
            LET again == NewsAfterRun(NewsById(load_news(store).items), new_news[r])
            IN  /\ store = Snapshot(result[r])
                /\ Ids(NewsOf(result[r])) = Ids(NewsAfterRun(existing_news[r], new_news[r]))
                /\ Ids(again) = Ids(NewsOf(store.data))
                /\ Len(again) = store.data.news_count
                /\ DistinctIds(again)
                /\ (/\ runs = 2 /\ Len(existing_news[r]) = 1 /\ Len(new_news[r]) = 1
                    /\ new_news[r][1].id = existing_news[r][1].id) => store.data.news_count = 1

\* From an empty history a feed returned one entry that both filter stages
\* keep, the first run stored it, and the second run, handed the same entry,
\* has written its snapshot with one news item.
RerunSameOutputsWitness ==
    LET H == existing_news["scheduler"]
        C == new_news["scheduler"]
    IN  /\ runs = 2 /\ pc["scheduler"] = "done"
        /\ Len(H) = 1 /\ Len(C) = 1
        /\ C[1] = [f \in DOMAIN C[1] |-> H[1][f]]
        /\ C[1].source = "Android Authority" /\ C[1].title = "Android 17 Beta 2 released"
        /\ store.data.news_count = 1
        /\ store.data.items[1].id = C[1].id

\* The fields the strict filters read.
FilterFields == {"type", "platform", "title", "summary"}

\* C21: the history only grows from one written snapshot to the next: every
\* news id of the file is still in the file after any step of a later run that
\* leaves a snapshot there, whatever the fetchers returned and whichever
\* fetcher calls, page requests or translation requests failed; and the
\* item keeps the platform, title and summary it was stored with.
HistoryMonotonic ==
    [][ (store.state = "ok" /\ store'.state = "ok") =>
            /\ Ids(NewsOf(store.data)) \subseteq Ids(NewsOf(store'.data))
            /\ \A id \in Ids(NewsOf(store.data)) :
                  \A f \in FilterFields :
                      Get(Stored(NewsOf(store'.data), id), f) = Get(Stored(NewsOf(store.data), id), f) ]_vars

\* A second run, all of whose candidates came with errors logged or were
\* filtered out, has written the file, which holds the news the first run
\* stored.
HistoryMonotonicWitness ==
    /\ runs = 2 /\ pc["scheduler"] = "done" /\ store.state = "ok"
    /\ existing_news["scheduler"] # << >>
    /\ fetch_errors["scheduler"] >= 1
    /\ dropped["scheduler"] # << >>
    /\ Ids(NewsOf(store.data)) = Ids(existing_news["scheduler"])

\* The text of the item holds a version keyword of the platform.
HasVersion(item, platform) == AnyIn(ItemText(item), CodeVersionSet(platform))

\* The text of the item holds a hardware keyword of either platform.
HasHardware(item) == AnyIn(ItemText(item), hardware_keywords \o ios_hardware_keywords)

OtherPlatform(platform) == IF platform = "android" THEN "ios" ELSE "android"

\* C22: the decision of the strict filters on a news item depends only on the
\* platform it is tagged with and on whether its title and summary hold a
\* version keyword of that platform: two items of one platform that agree on
\* that are both kept or both removed, whatever their hardware keywords,
\* dates, sources and images and whether they come from the store or from a
\* fetcher; an item is kept exactly when it holds a version keyword of its own
\* platform, so a version keyword of the other platform keeps no item.
RetentionDeterminism ==
    (unit.op = "filter" /\ unit.returned) =>
        LET a == unit.items[1]
            b == unit.items[2]
            Kept(item) == item.id \in Ids(unit.value)
        IN  /\ (a.platform = b.platform /\ (HasVersion(a, a.platform) <=> HasVersion(b, b.platform)))
                   => (Kept(a) <=> Kept(b))
            /\ \A item \in {a, b} :
                  /\ Kept(item) <=> HasVersion(item, item.platform)
                  /\ (HasVersion(item, OtherPlatform(item.platform)) /\ ~HasVersion(item, item.platform))
                        => ~Kept(item)
                  /\ Kept(item) => item \in { unit.value[i] : i \in 1..Len(unit.value) }

\* Two Android items without an Android version keyword, one with a hardware
\* keyword and one with an iOS version keyword, have both been removed.
RetentionDeterminismWitness ==
    /\ unit.op = "filter" /\ unit.returned
    /\ unit.items[1].platform = "android" /\ unit.items[2].platform = "android"
    /\ HasHardware(unit.items[1]) /\ ~HasVersion(unit.items[1], "android")
    /\ ~HasHardware(unit.items[2]) /\ HasVersion(unit.items[2], "ios") /\ ~HasVersion(unit.items[2], "android")
    /\ unit.value = << >>

====
